---------------------------- MODULE Spec2Model ----------------------------
(***************************************************************************)
(* A model of wg1gps.py: extraction of the camera model, capture time,     *)
(* thumbnail and GPS record that a PENTAX Optio WG-1 GPS writes into the   *)
(* JUNK chunk of its RIFF/AVI movies.                                      *)
(*                                                                         *)
(* Byte strings are sequences of naturals 0..255.  A Python value that may *)
(* be None is a sequence of length at most one: None is <<>> and a value v *)
(* is <<v>>.  Python floats are exact fractions <<numerator, denominator>> *)
(* (rounding is not modelled).  32-bit unsigned fields are drawn below     *)
(* 2^31, inside the range of TLC's integers.                               *)
(***************************************************************************)
EXTENDS Integers, Sequences, FiniteSets, TLC

(***************************************************************************)
(* Byte literals of the source                                             *)
(***************************************************************************)
RIFF == <<82, 73, 70, 70>>
AVI  == <<65, 86, 73, 32>>
JUNK == <<74, 85, 78, 75>>
LIST == <<76, 73, 83, 84>>
movi == <<109, 111, 118, 105>>
GPSMARK == <<71, 80, 83, 95>>
CAMERA == <<80, 69, 78, 84, 65, 88, 32, 79, 112, 116, 105, 111, 32,
            87, 71, 45, 49, 32, 71, 80, 83>>
SOI == <<255, 216>>
EOI == <<255, 217>>

\* Tags of the GPS IFD
GPS_VERSION_ID == 0
GPS_LATITUDE_REF == 1
GPS_LATITUDE == 2
GPS_LONGITUDE_REF == 3
GPS_LONGITUDE == 4
GPS_ALTITUDE_REF == 5
GPS_ALTITUDE == 6
GPS_TIME_STAMP == 7
GPS_SATELLITES == 8
GPS_STATUS == 9
GPS_MEASURE_MODE == 10
GPS_MAP_DATUM == 18
GPS_DATE_STAMP == 29

GpsTags == {GPS_VERSION_ID, GPS_LATITUDE_REF, GPS_LATITUDE, GPS_LONGITUDE_REF,
            GPS_LONGITUDE, GPS_ALTITUDE_REF, GPS_ALTITUDE, GPS_TIME_STAMP,
            GPS_SATELLITES, GPS_STATUS, GPS_MEASURE_MODE, GPS_MAP_DATUM,
            GPS_DATE_STAMP}

None == <<>>
Some(v) == <<v>>

Min(a, b) == IF a < b THEN a ELSE b
Max(a, b) == IF a > b THEN a ELSE b

(***************************************************************************)
(* struct: formats are sequences of <<count, code>> items, byte order '<'  *)
(* (little-endian, no padding).                                            *)
(***************************************************************************)
LE32(b) == b[1] + 256 * b[2] + 65536 * b[3] + 16777216 * b[4]

ItemSize(it) == IF it[2] = "L" THEN 4 * it[1] ELSE it[1]

RECURSIVE calcsize(_)
calcsize(fmt) ==
    IF Len(fmt) = 0 THEN 0 ELSE ItemSize(Head(fmt)) + calcsize(Tail(fmt))

ItemValues(it, data, off) ==
    CASE it[2] = "s" -> << SubSeq(data, off + 1, off + it[1]) >>
      [] it[2] = "L" -> [k \in 1..it[1] |->
                           LE32(SubSeq(data, off + 4 * (k - 1) + 1, off + 4 * k))]
      [] it[2] = "B" -> [k \in 1..it[1] |-> data[off + k]]
      [] OTHER       -> << >>

RECURSIVE UnpackFrom(_, _, _)
UnpackFrom(fmt, data, off) ==
    IF Len(fmt) = 0 THEN << >>
    ELSE ItemValues(Head(fmt), data, off)
           \o UnpackFrom(Tail(fmt), data, off + ItemSize(Head(fmt)))

\* unpack(fmt, data): None stands for struct.error (len(data) != calcsize(fmt))
unpack(fmt, data) ==
    IF Len(data) = calcsize(fmt) THEN Some(UnpackFrom(fmt, data, 0)) ELSE None

RiffFormat  == << <<4, "s">>, <<1, "L">>, <<4, "s">> >>
ChunkFormat == << <<4, "s">>, <<1, "L">> >>

(***************************************************************************)
(* The file object: read(n) returns at most n bytes and stops at the end   *)
(* of the file; seek(d, 1) moves the position by d, possibly past the end. *)
(***************************************************************************)
ReadAt(bytes, p, n) == SubSeq(bytes, p + 1, Min(p + n, Len(bytes)))
AfterRead(bytes, p, n) == IF p >= Len(bytes) THEN p ELSE Min(p + n, Len(bytes))

\* The skip distances of lines 236 and 238
ListSkipFromHeader(size) == size - 12
ListSkip(size) == size - 4
OtherSkipPadded(size) == size + (size % 2)
OtherSkip(size) == size

\* Line 227: chunk == 'RIFF' and type == 'AVI '
IsRiffOrAvi(h) == h[1] = RIFF \/ h[3] = AVI
IsRiffAvi(h) == h[1] = RIFF /\ h[3] = AVI

\* Leaving the with block (line 225) closes the file
WithExitLeak == "open"
WithExit == "closed"

(***************************************************************************)
(* Python list and string helpers                                          *)
(***************************************************************************)
\* l[a:b] and l[a:b:step] for 0 <= a <= b <= len(l)
PySlice(l, a, b) == SubSeq(l, a + 1, b)
PySliceStep(l, a, b, step) ==
    [k \in 1..((b - a + step - 1) \div step) |-> l[a + (k - 1) * step + 1]]
zip(x, y) == [k \in 1..Min(Len(x), Len(y)) |-> <<x[k], y[k]>>]

RECURSIVE rstrip(_, _)
rstrip(s, chars) ==
    IF Len(s) > 0 /\ s[Len(s)] \in chars
    THEN rstrip(SubSeq(s, 1, Len(s) - 1), chars)
    ELSE s

\* The characters of rstrip(' \0')
SpaceNul == {32, 0}

replace(s, old, new) == [k \in 1..Len(s) |-> IF s[k] = old THEN new ELSE s[k]]

\* str(n) for n >= 0
RECURSIVE str(_)
str(n) == IF n < 10 THEN <<48 + n>> ELSE Append(str(n \div 10), 48 + (n % 10))

RECURSIVE join(_, _)
join(sep, parts) ==
    IF Len(parts) = 0 THEN << >>
    ELSE IF Len(parts) = 1 THEN parts[1]
    ELSE parts[1] \o sep \o join(sep, Tail(parts))

\* s.split(sep) for a one-byte separator
RECURSIVE split(_, _)
split(s, sep) ==
    IF \E k \in 1..Len(s) : s[k] = sep
    THEN LET k == CHOOSE i \in 1..Len(s) : s[i] = sep /\ \A j \in 1..(i - 1) : s[j] # sep
         IN  <<SubSeq(s, 1, k - 1)>> \o split(SubSeq(s, k + 1, Len(s)), sep)
    ELSE <<s>>

IsDigit(b) == b \in 48..57
IsUpper(b) == b \in 65..90
IsLower(b) == b \in 97..122
AllDigits(s) == \A k \in 1..Len(s) : IsDigit(s[k])

RECURSIVE int(_)
int(s) == IF Len(s) = 0 THEN 0 ELSE 10 * int(SubSeq(s, 1, Len(s) - 1)) + (s[Len(s)] - 48)

lower(s) == [k \in 1..Len(s) |-> IF IsUpper(s[k]) THEN s[k] + 32 ELSE s[k]]

(***************************************************************************)
(* Exact fractions <<n, d>>, d > 0, in lowest terms, for Python's floats   *)
(***************************************************************************)
RECURSIVE Gcd(_, _)
Gcd(a, b) == IF b = 0 THEN a ELSE Gcd(b, a % b)
Abs(a) == IF a < 0 THEN -a ELSE a
Frac(n, d) == LET g == Gcd(Abs(n), d) IN <<n \div g, d \div g>>
FAdd(x, y) == Frac(x[1] * y[2] + y[1] * x[2], x[2] * y[2])
FDivInt(x, k) == Frac(x[1], x[2] * k)
FNeg(x) == <<-x[1], x[2]>>

(***************************************************************************)
(* re.search(pattern, junk_chunk, re.S) for the pattern of lines 185-189   *)
(*   (CAMERA).*?(STAMP).*?(\xFF\xD8.*\xFF\xD9)GPS_(.{130})                 *)
(* A match is <<s, t, j, e>>: the first bytes of the camera literal, of    *)
(* the timestamp, of FF D8 and of the FF D9 that closes group 3.           *)
(***************************************************************************)
gpsformatSwapped == << <<4, "B">>, <<2, "s">>, <<6, "L">>, <<2, "s">>, <<6, "L">>,
                       <<1, "B">>, <<2, "L">>, <<16, "x">>, <<6, "L">>, <<2, "s">>,
                       <<3, "s">>, <<2, "s">>, <<7, "s">>, <<11, "s">> >>
\* Line 184: '<4B2s6L2s6LB2L16x6L3s2s2s7s11s'
gpsformat == << <<4, "B">>, <<2, "s">>, <<6, "L">>, <<2, "s">>, <<6, "L">>,
                <<1, "B">>, <<2, "L">>, <<16, "x">>, <<6, "L">>, <<3, "s">>,
                <<2, "s">>, <<2, "s">>, <<7, "s">>, <<11, "s">> >>

IsAt(p, i, lit) ==
    /\ i + Len(lit) - 1 <= Len(p)
    /\ \A k \in 1..Len(lit) : p[i + k - 1] = lit[k]

\* [A-Z][a-z]{2} [A-Z][a-z]{2} \d{2} \d{2}:\d{2}:\d{2} \d{4}
StampClasses == <<"U", "l", "l", " ", "U", "l", "l", " ", "d", "d", " ", "d", "d",
                  ":", "d", "d", ":", "d", "d", " ", "d", "d", "d", "d">>

InClass(b, c) ==
    CASE c = "U" -> IsUpper(b)
      [] c = "l" -> IsLower(b)
      [] c = "d" -> IsDigit(b)
      [] c = " " -> b = 32
      [] OTHER   -> b = 58

StampAt(p, i) ==
    /\ i + Len(StampClasses) - 1 <= Len(p)
    /\ \A k \in 1..Len(StampClasses) : InClass(p[i + k - 1], StampClasses[k])

Matches(p) ==
    LET S == { s \in 1..Len(p) : IsAt(p, s, CAMERA) }
        T == { t \in 1..Len(p) : StampAt(p, t) }
        J == { j \in 1..Len(p) : IsAt(p, j, SOI) }
        E == { e \in 1..Len(p) : /\ IsAt(p, e, EOI \o GPSMARK)
                                 /\ e + 5 + calcsize(gpsformat) <= Len(p) }
    IN  { x \in S \X T \X J \X E :
            /\ x[2] >= x[1] + Len(CAMERA)
            /\ x[3] >= x[2] + Len(StampClasses)
            /\ x[4] >= x[3] + 2 }

\* The order in which the backtracking matcher tries: leftmost start, lazy
\* .*? before the timestamp and before FF D8, greedy .* inside group 3
ThumbEndFirst(x, y) == x[4] <= y[4]
ThumbEndLast(x, y) == x[4] >= y[4]

Preferred(x, y) ==
    \/ x[1] < y[1]
    \/ x[1] = y[1] /\ x[2] < y[2]
    \/ x[1] = y[1] /\ x[2] = y[2] /\ x[3] < y[3]
    \/ x[1] = y[1] /\ x[2] = y[2] /\ x[3] = y[3] /\ ThumbEndLast(x, y)

\* The match object, None when there is none: group[1..4] are the groups
\* and at is <<s, t, j, e>>
search(p) ==
    LET M == Matches(p)
    IN  IF M = {} THEN None
        ELSE LET x == CHOOSE a \in M : \A b \in M : Preferred(a, b)
             IN  Some([group |-> << SubSeq(p, x[1], x[1] + Len(CAMERA) - 1),
                                    SubSeq(p, x[2], x[2] + Len(StampClasses) - 1),
                                    SubSeq(p, x[3], x[4] + 1),
                                    SubSeq(p, x[4] + 6, x[4] + 5 + calcsize(gpsformat)) >>,
                       at |-> x])

(***************************************************************************)
(* datetime.strptime: a datetime is <<year, month, day, hour, minute,      *)
(* second>>, None stands for ValueError.  Texts hold no white space other  *)
(* than the space.                                                         *)
(***************************************************************************)
WeekdayNames == { <<109, 111, 110>>, <<116, 117, 101>>, <<119, 101, 100>>,
                  <<116, 104, 117>>, <<102, 114, 105>>, <<115, 97, 116>>,
                  <<115, 117, 110>> }
MonthNames == << <<106, 97, 110>>, <<102, 101, 98>>, <<109, 97, 114>>,
                 <<97, 112, 114>>, <<109, 97, 121>>, <<106, 117, 110>>,
                 <<106, 117, 108>>, <<97, 117, 103>>, <<115, 101, 112>>,
                 <<111, 99, 116>>, <<110, 111, 118>>, <<100, 101, 99>> >>

\* %d, %m, %H, %M, %S and %Y as _strptime's regular expressions accept them
DirD(s) == \/ Len(s) = 2 /\ AllDigits(s) /\ int(s) \in 1..31
           \/ Len(s) = 1 /\ AllDigits(s) /\ int(s) \in 1..9
           \/ Len(s) = 2 /\ s[1] = 32 /\ s[2] \in 49..57
DirM(s) == Len(s) \in 1..2 /\ AllDigits(s) /\ int(s) \in 1..12
DirH(s) == Len(s) \in 1..2 /\ AllDigits(s) /\ int(s) \in 0..23
DirMin(s) == Len(s) \in 1..2 /\ AllDigits(s) /\ int(s) \in 0..59
DirS(s) == Len(s) \in 1..2 /\ AllDigits(s) /\ int(s) \in 0..61
DirY(s) == Len(s) = 4 /\ AllDigits(s)

IsLeap(y) == y % 4 = 0 /\ (y % 100 # 0 \/ y % 400 = 0)
DaysIn(y, mo) ==
    IF mo = 2 THEN (IF IsLeap(y) THEN 29 ELSE 28)
    ELSE IF mo \in {4, 6, 9, 11} THEN 30 ELSE 31

\* datetime(y, mo, d, h, mi, s)
datetime(y, mo, d, h, mi, s) ==
    IF y \in 1..9999 /\ d <= DaysIn(y, mo) /\ s <= 59
    THEN Some(<<y, mo, d, h, mi, s>>) ELSE None

DayValue(s) == IF s[1] = 32 THEN s[2] - 48 ELSE int(s)

ClockOk(c) == Len(c) = 3 /\ DirH(c[1]) /\ DirMin(c[2]) /\ DirS(c[3])

\* strptime(text, "%a %b %d %H:%M:%S %Y")
strptime_ctime(text) ==
    LET w == split(text, 32)
    IN  IF /\ Len(w) = 5
           /\ lower(w[1]) \in WeekdayNames
           /\ \E k \in 1..12 : MonthNames[k] = lower(w[2])
           /\ DirD(w[3])
           /\ ClockOk(split(w[4], 58))
           /\ DirY(w[5])
        THEN LET c == split(w[4], 58)
                 mo == CHOOSE k \in 1..12 : MonthNames[k] = lower(w[2])
             IN  datetime(int(w[5]), mo, DayValue(w[3]), int(c[1]), int(c[2]), int(c[3]))
        ELSE None

\* strptime(datestamp + " " + timestamp, "%Y/%m/%d %H:%M:%S"), the timestamp
\* made of digits and colons
strptime_gps(datestamp, timestamp) ==
    LET d == split(datestamp, 47)
        c == split(timestamp, 58)
    IN  IF Len(d) = 3 /\ DirY(d[1]) /\ DirM(d[2]) /\ DirD(d[3]) /\ ClockOk(c)
        THEN datetime(int(d[1]), int(d[2]), DayValue(d[3]), int(c[1]), int(c[2]), int(c[3]))
        ELSE None

(***************************************************************************)
(* The GPS record (lines 196-213) and the Metadata accessors               *)
(***************************************************************************)
\* gpsdata[4].rstrip(' \0'), the latitude reference
LatRefUntrimmed(gpsdata) == gpsdata[5]
LatRef(gpsdata) == rstrip(gpsdata[5], SpaceNul)

\* Lines 197-211
GpsInfoSwapped(gpsdata) ==
    [tag \in GpsTags |->
        CASE tag = GPS_VERSION_ID    -> PySlice(gpsdata, 0, 4)
          [] tag = GPS_LATITUDE_REF  -> LatRef(gpsdata)
          [] tag = GPS_LATITUDE      -> zip(PySliceStep(gpsdata, 6, 11, 2),
                                            PySliceStep(gpsdata, 5, 11, 2))
          [] tag = GPS_LONGITUDE_REF -> rstrip(gpsdata[12], SpaceNul)
          [] tag = GPS_LONGITUDE     -> zip(PySliceStep(gpsdata, 12, 18, 2),
                                            PySliceStep(gpsdata, 13, 18, 2))
          [] tag = GPS_ALTITUDE_REF  -> gpsdata[19]
          [] tag = GPS_ALTITUDE      -> <<gpsdata[20], gpsdata[21]>>
          [] tag = GPS_TIME_STAMP    -> zip(PySliceStep(gpsdata, 21, 27, 2),
                                            PySliceStep(gpsdata, 22, 27, 2))
          [] tag = GPS_SATELLITES    -> rstrip(gpsdata[28], SpaceNul)
          [] tag = GPS_STATUS        -> rstrip(gpsdata[29], SpaceNul)
          [] tag = GPS_MEASURE_MODE  -> rstrip(gpsdata[30], SpaceNul)
          [] tag = GPS_MAP_DATUM     -> rstrip(gpsdata[31], SpaceNul)
          [] OTHER                   -> rstrip(gpsdata[32], SpaceNul)]

GpsInfo(gpsdata) ==
    [tag \in GpsTags |->
        CASE tag = GPS_VERSION_ID    -> PySlice(gpsdata, 0, 4)
          [] tag = GPS_LATITUDE_REF  -> LatRef(gpsdata)
          [] tag = GPS_LATITUDE      -> zip(PySliceStep(gpsdata, 5, 11, 2),
                                            PySliceStep(gpsdata, 6, 11, 2))
          [] tag = GPS_LONGITUDE_REF -> rstrip(gpsdata[12], SpaceNul)
          [] tag = GPS_LONGITUDE     -> zip(PySliceStep(gpsdata, 12, 18, 2),
                                            PySliceStep(gpsdata, 13, 18, 2))
          [] tag = GPS_ALTITUDE_REF  -> gpsdata[19]
          [] tag = GPS_ALTITUDE      -> <<gpsdata[20], gpsdata[21]>>
          [] tag = GPS_TIME_STAMP    -> zip(PySliceStep(gpsdata, 21, 27, 2),
                                            PySliceStep(gpsdata, 22, 27, 2))
          [] tag = GPS_SATELLITES    -> rstrip(gpsdata[28], SpaceNul)
          [] tag = GPS_STATUS        -> rstrip(gpsdata[29], SpaceNul)
          [] tag = GPS_MEASURE_MODE  -> rstrip(gpsdata[30], SpaceNul)
          [] tag = GPS_MAP_DATUM     -> rstrip(gpsdata[31], SpaceNul)
          [] OTHER                   -> rstrip(gpsdata[32], SpaceNul)]

\* Lines 212-213: no latitude reference, no GPS information
GpsInfoOrNone(gpsdata) ==
    IF GpsInfo(gpsdata)[GPS_LATITUDE_REF] = << >> THEN None ELSE Some(GpsInfo(gpsdata))

Metadata(camera_model, datetime_original, thumbnail, gpsinfo) ==
    [camera_model |-> camera_model, datetime_original |-> datetime_original,
     thumbnail |-> thumbnail, gpsinfo |-> gpsinfo]

\* What a property returns: None, a value, or an exception
RNone == [kind |-> "None", v |-> << >>]
RVal(v) == [kind |-> "value", v |-> v]
RRaise(e) == [kind |-> e, v |-> << >>]

\* Lines 171-174
latlong_deg(rationals) ==
    IF \E k \in 1..3 : rationals[k][2] = 0 THEN RRaise("ZeroDivisionError")
    ELSE LET d == [k \in 1..3 |-> Frac(rationals[k][1], rationals[k][2])]
         IN  RVal(FAdd(FAdd(d[1], FDivInt(d[2], 60)), FDivInt(d[3], 3600)))

SignedNever(x, ref, neg) == x
Signed(x, ref, neg) ==
    IF x.kind = "value" /\ ref = neg THEN RVal(FNeg(x.v)) ELSE x

\* Lines 70-77
gps_version_id(md) ==
    IF md.gpsinfo = None THEN RNone
    ELSE LET g == md.gpsinfo[1][GPS_VERSION_ID]
         IN  RVal(join(<<46>>, [k \in 1..Len(g) |-> str(g[k])]))

\* Lines 79-89
gps_latitude(md) ==
    IF md.gpsinfo = None THEN RNone
    ELSE Signed(latlong_deg(md.gpsinfo[1][GPS_LATITUDE]),
                md.gpsinfo[1][GPS_LATITUDE_REF], <<83>>)

\* Lines 91-101
gps_longitude(md) ==
    IF md.gpsinfo = None THEN RNone
    ELSE Signed(latlong_deg(md.gpsinfo[1][GPS_LONGITUDE]),
                md.gpsinfo[1][GPS_LONGITUDE_REF], <<87>>)

\* Lines 103-115
gps_altitude(md) ==
    IF md.gpsinfo = None THEN RNone
    ELSE LET a == md.gpsinfo[1][GPS_ALTITUDE]
         IN  Signed(IF a[2] = 0 THEN RRaise("ZeroDivisionError")
                    ELSE RVal(Frac(a[1], a[2])),
                    md.gpsinfo[1][GPS_ALTITUDE_REF], 1)

\* Lines 117-156
gps_text(md, tag) ==
    IF md.gpsinfo = None THEN RNone ELSE RVal(md.gpsinfo[1][tag])

\* Lines 158-169
gps_datetime(md) ==
    IF md.gpsinfo = None THEN RNone
    ELSE LET r == md.gpsinfo[1][GPS_TIME_STAMP]
         IN  IF \E k \in 1..3 : r[k][2] = 0 THEN RRaise("ZeroDivisionError")
             ELSE LET t == [k \in 1..3 |-> str(r[k][1] \div r[k][2])]
                      timestamp == join(<<58>>, t)
                      datestamp == replace(md.gpsinfo[1][GPS_DATE_STAMP], 58, 47)
                      dt == strptime_gps(datestamp, timestamp)
                  IN  IF dt = None THEN RRaise("ValueError") ELSE RVal(dt[1])

GpsProperties == {"gps_version_id", "gps_latitude", "gps_longitude", "gps_altitude",
                  "gps_satellites", "gps_status", "gps_measure_mode",
                  "gps_map_datum", "gps_datetime"}

Property(md, name) ==
    CASE name = "gps_version_id"   -> gps_version_id(md)
      [] name = "gps_latitude"     -> gps_latitude(md)
      [] name = "gps_longitude"    -> gps_longitude(md)
      [] name = "gps_altitude"     -> gps_altitude(md)
      [] name = "gps_satellites"   -> gps_text(md, GPS_SATELLITES)
      [] name = "gps_status"       -> gps_text(md, GPS_STATUS)
      [] name = "gps_measure_mode" -> gps_text(md, GPS_MEASURE_MODE)
      [] name = "gps_map_datum"    -> gps_text(md, GPS_MAP_DATUM)
      [] OTHER                     -> gps_datetime(md)

(***************************************************************************)
(* Input files                                                             *)
(***************************************************************************)
MaxChunks == 2
MaxPay == 2
MaxCut == 4

LE32Bytes(n) == <<n % 256, (n \div 256) % 256, (n \div 65536) % 256, n \div 16777216>>

Pay(n) == [k \in 1..n |-> 64 + k]

GoodHeader == RIFF \o LE32Bytes(0) \o AVI
BadHeaders == {<<82, 73, 70, 88>> \o LE32Bytes(0) \o AVI,
               RIFF \o LE32Bytes(0) \o <<87, 65, 86, 69>>,
               [k \in 1..12 |-> 0]}

hdrl == <<104, 100, 114, 108>>
idx1 == <<105, 100, 120, 49>>

Chunk(tag, size, body) == [tag |-> tag, size |-> size, body |-> body]
ChunkBytes(c) == c.tag \o LE32Bytes(c.size) \o c.body

ChunkMenu ==
    UNION { { Chunk(JUNK, n, Pay(n)),
              Chunk(LIST, 4 + n, movi \o Pay(n)),
              Chunk(LIST, 4 + n, hdrl \o Pay(n)),
              Chunk(LIST, 12 + n, hdrl \o ChunkBytes(Chunk(JUNK, n, Pay(n)))),
              Chunk(idx1, n + 1, Pay(n + 1)) } : n \in {0, MaxPay} }
    \cup { Chunk(idx1, 1000, Pay(1)) }
    \cup { Chunk(LIST, s, SubSeq(movi, 1, s)) : s \in {0, 3} }

RECURSIVE ChunkSeqs(_)
ChunkSeqs(k) ==
    IF k = 0 THEN { << >> }
    ELSE LET prev == ChunkSeqs(k - 1)
         IN  prev \cup { Append(s, c) : s \in { p \in prev : Len(p) = k - 1 },
                                        c \in ChunkMenu }

RECURSIVE Concat(_)
Concat(ss) == IF Len(ss) = 0 THEN << >> ELSE Head(ss) \o Concat(Tail(ss))

\* Files that pass the magic check, cut short by up to MaxCut bytes
ScanFixtures ==
    { [kind |-> "scan", header |-> GoodHeader, chunks |-> cs, cut |-> c] :
        cs \in ChunkSeqs(MaxChunks), c \in 0..MaxCut }

\* Files that fail it
OtherFixtures ==
    { [kind |-> "scan", header |-> h, chunks |-> cs, cut |-> 0] :
        h \in BadHeaders, cs \in ChunkSeqs(1) }

(***************************************************************************)
(* Movies of the camera: RIFF/AVI header and one JUNK chunk holding        *)
(*   CAMERA f1 stamp f2 thumb f3 "GPS_" record tail                        *)
(***************************************************************************)
MaxFill == 1

Zeros(n) == [k \in 1..n |-> 0]
Fills == { Zeros(n) : n \in 0..MaxFill }

Pad2(n) == <<48 + ((n \div 10) % 10), 48 + (n % 10)>>
Pad4(n) == Pad2(n \div 100) \o Pad2(n % 100)

\* The text a clock value is written as: "Www Mmm dd hh:mm:ss yyyy"
Stamp(wd, mon, d, h, mi, sec, y) ==
    [wd |-> wd, mon |-> mon, d |-> d, h |-> h, mi |-> mi, sec |-> sec, y |-> y]
StampText(st) ==
    st.wd \o <<32>> \o st.mon \o <<32>> \o Pad2(st.d) \o <<32>> \o Pad2(st.h) \o <<58>>
      \o Pad2(st.mi) \o <<58>> \o Pad2(st.sec) \o <<32>> \o Pad4(st.y)

BaseStamp == Stamp(<<77, 111, 110>>, <<74, 97, 110>>, 2, 3, 4, 5, 2012)
OtherStamp == Stamp(<<84, 117, 101>>, <<68, 101, 99>>, 31, 23, 59, 59, 2013)
Stamps == { BaseStamp, OtherStamp,
            Stamp(<<87, 101, 100>>, <<70, 101, 98>>, 29, 0, 0, 0, 2012),
            Stamp(<<83, 117, 110>>, <<70, 101, 98>>, 30, 23, 59, 59, 2012),
            Stamp(<<83, 97, 116>>, <<74, 117, 110>>, 30, 23, 59, 60, 2012),
            Stamp(<<88, 120, 120>>, <<89, 121, 121>>, 99, 99, 99, 99, 9999) }

\* The clock value a stamp stands for, None when it is not well-formed
StampValue(st) ==
    IF /\ lower(st.wd) \in WeekdayNames
       /\ \E k \in 1..12 : MonthNames[k] = lower(st.mon)
       /\ st.d >= 1 /\ st.h <= 23 /\ st.mi <= 59 /\ st.sec <= 59 /\ st.y >= 1
       /\ st.d <= DaysIn(st.y, CHOOSE k \in 1..12 : MonthNames[k] = lower(st.mon))
    THEN Some(<<st.y, CHOOSE k \in 1..12 : MonthNames[k] = lower(st.mon),
                st.d, st.h, st.mi, st.sec>>)
    ELSE None

\* The fields of a GPS record and its 130 bytes
BaseRec ==
    [version |-> <<2, 3, 0, 0>>,
     latref |-> <<78, 0>>,
     lat |-> << <<35, 1>>, <<12, 1>>, <<3456, 100>> >>,
     lonref |-> <<69, 0>>,
     lon |-> << <<139, 1>>, <<0, 1>>, <<0, 1>> >>,
     altref |-> 0,
     alt |-> <<10, 1>>,
     reserved |-> Zeros(16),
     time |-> << <<3, 1>>, <<4, 1>>, <<5, 1>> >>,
     sats |-> <<48, 53, 0>>,
     status |-> <<65, 0>>,
     mode |-> <<51, 0>>,
     datum |-> <<87, 71, 83, 45, 56, 52, 0>>,
     date |-> <<50, 48, 49, 50, 58, 48, 49, 58, 48, 50, 0>>]

SouthWestRec ==
    [BaseRec EXCEPT !.version = <<2, 2, 0, 255>>, !.latref = <<83, 0>>,
                    !.lonref = <<87, 0>>, !.altref = 1]

PackPairs(ps) == Concat([k \in 1..Len(ps) |-> LE32Bytes(ps[k][1]) \o LE32Bytes(ps[k][2])])

PackRec(r) ==
    r.version \o r.latref \o PackPairs(r.lat) \o r.lonref \o PackPairs(r.lon)
      \o <<r.altref>> \o PackPairs(<<r.alt>>) \o r.reserved \o PackPairs(r.time)
      \o r.sats \o r.status \o r.mode \o r.datum \o r.date

Recs ==
    { BaseRec }
    \cup { [BaseRec EXCEPT !.latref = x] :
             x \in { <<83, 0>>, <<83, 32>>, <<0, 0>>, <<32, 32>>, <<0, 32>>,
                     <<32, 78>>, <<0, 83>>, <<88, 89>> } }
    \cup { [BaseRec EXCEPT !.lonref = x] : x \in { <<87, 0>>, <<87, 32>>, <<32, 32>> } }
    \cup { [BaseRec EXCEPT !.lat = x] :
             x \in { << <<35, 0>>, <<12, 1>>, <<3456, 100>> >>,
                     << <<71, 2>>, <<25, 2>>, <<3456, 100>> >>,
                     << <<0, 1>>, <<0, 1>>, <<0, 1>> >> } }
    \cup { [BaseRec EXCEPT !.lon = << <<139, 1>>, <<30, 1>>, <<0, 0>> >>] }
    \cup { [BaseRec EXCEPT !.altref = x] : x \in { 1, 2, 255 } }
    \cup { [BaseRec EXCEPT !.alt = x] : x \in { <<10, 0>>, <<15, 2>>, <<0, 1>>, <<16909060, 100>> } }
    \cup { [BaseRec EXCEPT !.reserved = [k \in 1..16 |-> k]] }
    \cup { [BaseRec EXCEPT !.time = x] :
             x \in { << <<300, 100>>, <<4, 1>>, <<59, 1>> >>,
                     << <<24, 1>>, <<4, 1>>, <<5, 1>> >>,
                     << <<3, 1>>, <<4, 0>>, <<5, 1>> >> } }
    \cup { [BaseRec EXCEPT !.sats = x] : x \in { <<49, 50, 32>>, <<32, 32, 32>>, <<32, 55, 0>> } }
    \cup { [BaseRec EXCEPT !.status = <<86, 32>>, !.mode = <<50, 32>>] }
    \cup { [BaseRec EXCEPT !.datum = <<84, 79, 75, 89, 79, 32, 0>>] }
    \cup { [BaseRec EXCEPT !.date = x] :
             x \in { <<50, 48, 49, 50, 58, 48, 50, 58, 51, 48, 0>>,
                     <<50, 48, 49, 50, 58, 49, 58, 32, 50, 32, 32>>,
                     Zeros(11) } }
    \cup { SouthWestRec }
    \cup { [BaseRec EXCEPT !.latref = <<0, 0>>, !.lat = << <<0, 0>>, <<0, 0>>, <<0, 0>> >>,
                           !.date = Zeros(11)] }

BaseThumb == SOI \o <<0>> \o EOI
Thumbs == { BaseThumb, SOI \o EOI \o <<0>> \o EOI }

Avi(f1, stamp, f2, thumb, f3, rec, tail, cut) ==
    [kind |-> "avi", f1 |-> f1, stamp |-> stamp, f2 |-> f2, thumb |-> thumb,
     f3 |-> f3, rec |-> rec, tail |-> tail, cut |-> cut]

Tails == Fills \cup { EOI \o GPSMARK \o PackRec(SouthWestRec) }

AviFixtures ==
    { Avi(f1, BaseStamp, f2, th, f3, BaseRec, tl, 0) :
        f1 \in Fills \cup { StampText(OtherStamp) },
        f2 \in Fills \cup { SOI \o <<0>> },
        th \in Thumbs,
        f3 \in Fills \cup { <<0>> \o EOI },
        tl \in Tails }
    \cup { Avi(<< >>, st, << >>, BaseThumb, << >>, BaseRec, << >>, 0) : st \in Stamps }
    \cup { Avi(<< >>, BaseStamp, << >>, BaseThumb, << >>, r, << >>, 0) : r \in Recs }
    \cup { Avi(<< >>, BaseStamp, << >>, BaseThumb, << >>, BaseRec, tl, c) :
             tl \in Tails, c \in 1..MaxCut }

PayloadOf(fx) ==
    CAMERA \o fx.f1 \o StampText(fx.stamp) \o fx.f2 \o fx.thumb \o fx.f3
      \o GPSMARK \o PackRec(fx.rec) \o fx.tail

FileOf(fx) ==
    LET whole ==
          IF fx.kind = "avi"
          THEN GoodHeader \o ChunkBytes(Chunk(JUNK, Len(PayloadOf(fx)), PayloadOf(fx)))
          ELSE fx.header \o Concat([k \in 1..Len(fx.chunks) |-> ChunkBytes(fx.chunks[k])])
    IN  SubSeq(whole, 1, Max(0, Len(whole) - fx.cut))

Fixtures == ScanFixtures \cup OtherFixtures \cup AviFixtures

(***************************************************************************)
(* State                                                                   *)
(***************************************************************************)
VARIABLES
    fixture,      \* how the input file was made (never read by the program)
    file,         \* the bytes of the file named fname
    f,            \* the file object of _get_junk_chunk: "unopened", "open", "closed"
    pos,          \* the read position of f
    pc,           \* where the call of get_avi_metadata stands
    junk_chunk,   \* what _get_junk_chunk returned
    m,            \* the match object of line 190, None when there is none
    exc,          \* the exception that ended the call, "" when none
    result,       \* what get_avi_metadata returned
    got           \* the last property read from the returned Metadata

vars == <<fixture, file, f, pos, pc, junk_chunk, m, exc, result, got>>

Init ==
    /\ fixture \in Fixtures
    /\ file = FileOf(fixture)
    /\ f = "unopened"
    /\ pos = 0
    /\ pc = "call"
    /\ junk_chunk = None
    /\ m = None
    /\ exc = ""
    /\ result = None
    /\ got = [name |-> "", ret |-> RNone]

(***************************************************************************)
(* _get_junk_chunk                                                         *)
(***************************************************************************)
Raise(e) ==
    /\ pc' = "done"
    /\ exc' = e
    /\ UNCHANGED <<junk_chunk, m, result, got>>

\* Line 225: with open(fname, 'rb') as f
Open ==
    /\ pc = "call"
    /\ f' = "open"
    /\ pc' = "header"
    /\ UNCHANGED <<fixture, file, pos, junk_chunk, m, exc, result, got>>

\* Line 226, fewer than 12 bytes: unpack raises struct.error
HeaderShort ==
    /\ pc = "header"
    /\ unpack(RiffFormat, ReadAt(file, pos, 12)) = None
    /\ pos' = AfterRead(file, pos, 12)
    /\ f' = WithExit
    /\ Raise("struct.error")
    /\ UNCHANGED <<fixture, file>>

\* Lines 226-227, the magic does not match: falls off the end, returns None
HeaderOther ==
    /\ pc = "header"
    /\ unpack(RiffFormat, ReadAt(file, pos, 12)) # None
    /\ ~IsRiffAvi(unpack(RiffFormat, ReadAt(file, pos, 12))[1])
    /\ pos' = AfterRead(file, pos, 12)
    /\ f' = WithExit
    /\ junk_chunk' = None
    /\ pc' = "returned"
    /\ UNCHANGED <<fixture, file, m, exc, result, got>>

\* Lines 226-228, RIFF/AVI: enter the loop
HeaderRiffAvi ==
    /\ pc = "header"
    /\ unpack(RiffFormat, ReadAt(file, pos, 12)) # None
    /\ IsRiffAvi(unpack(RiffFormat, ReadAt(file, pos, 12))[1])
    /\ pos' = AfterRead(file, pos, 12)
    /\ pc' = "scan"
    /\ UNCHANGED <<fixture, file, f, junk_chunk, m, exc, result, got>>

\* Line 229: chunk, size = unpack('<4sL', f.read(8))
ChunkHeader == unpack(ChunkFormat, ReadAt(file, pos, 8))

\* Line 229, fewer than 8 bytes: unpack raises struct.error
ChunkShort ==
    /\ pc = "scan"
    /\ ChunkHeader = None
    /\ pos' = AfterRead(file, pos, 8)
    /\ f' = WithExit
    /\ Raise("struct.error")
    /\ UNCHANGED <<fixture, file>>

\* Lines 230-231: return f.read(size)
ChunkJunk ==
    /\ pc = "scan"
    /\ ChunkHeader # None
    /\ ChunkHeader[1][1] = JUNK
    /\ LET size == ChunkHeader[1][2]
       IN  /\ junk_chunk' = Some(ReadAt(file, pos + 8, size))
           /\ pos' = AfterRead(file, pos + 8, size)
    /\ f' = WithExit
    /\ pc' = "returned"
    /\ UNCHANGED <<fixture, file, m, exc, result, got>>

\* Lines 232-234: LIST whose next four bytes are 'movi': return None
ChunkListMovi ==
    /\ pc = "scan"
    /\ ChunkHeader # None
    /\ ChunkHeader[1][1] = LIST
    /\ ReadAt(file, pos + 8, 4) = movi
    /\ pos' = AfterRead(file, pos + 8, 4)
    /\ f' = WithExit
    /\ junk_chunk' = None
    /\ pc' = "returned"
    /\ UNCHANGED <<fixture, file, m, exc, result, got>>

\* Lines 232-236: another LIST (or a short read of the subtype): seek(size - 4, 1)
ChunkListSkip ==
    /\ pc = "scan"
    /\ ChunkHeader # None
    /\ ChunkHeader[1][1] = LIST
    /\ ReadAt(file, pos + 8, 4) # movi
    /\ pos' = AfterRead(file, pos + 8, 4) + ListSkip(ChunkHeader[1][2])
    /\ UNCHANGED <<fixture, file, f, pc, junk_chunk, m, exc, result, got>>

\* Lines 237-238: any other chunk: seek(size, 1)
ChunkOther ==
    /\ pc = "scan"
    /\ ChunkHeader # None
    /\ ChunkHeader[1][1] # JUNK
    /\ ChunkHeader[1][1] # LIST
    /\ pos' = pos + 8 + OtherSkip(ChunkHeader[1][2])
    /\ UNCHANGED <<fixture, file, f, pc, junk_chunk, m, exc, result, got>>

get_junk_chunk ==
    \/ Open
    \/ HeaderShort
    \/ HeaderOther
    \/ HeaderRiffAvi
    \/ ChunkShort
    \/ ChunkJunk
    \/ ChunkListMovi
    \/ ChunkListSkip
    \/ ChunkOther

(***************************************************************************)
(* get_avi_metadata, after _get_junk_chunk has returned                    *)
(***************************************************************************)
\* if junk_chunk: neither None nor the empty string
Truthy(x) == x # None /\ x # Some(<< >>)

\* Line 183, junk_chunk is None or empty: returns None
NoJunk ==
    /\ pc = "returned"
    /\ ~Truthy(junk_chunk)
    /\ pc' = "done"
    /\ result' = None
    /\ UNCHANGED <<fixture, file, f, pos, junk_chunk, m, exc, got>>

\* Lines 190-191, no match: returns None
SearchNone ==
    /\ pc = "returned"
    /\ Truthy(junk_chunk)
    /\ search(junk_chunk[1]) = None
    /\ pc' = "done"
    /\ result' = None
    /\ UNCHANGED <<fixture, file, f, pos, junk_chunk, m, exc, got>>

\* Lines 190-191, a match
SearchMatch ==
    /\ pc = "returned"
    /\ Truthy(junk_chunk)
    /\ search(junk_chunk[1]) # None
    /\ m' = search(junk_chunk[1])
    /\ pc' = "matched"
    /\ UNCHANGED <<fixture, file, f, pos, junk_chunk, exc, result, got>>

\* Lines 193-194: strptime raises ValueError
StampError ==
    /\ pc = "matched"
    /\ strptime_ctime(m[1].group[2]) = None
    /\ Raise("ValueError")
    /\ UNCHANGED <<fixture, file, f, pos>>

\* Lines 192-217
ReturnMetadata ==
    /\ pc = "matched"
    /\ strptime_ctime(m[1].group[2]) # None
    /\ LET camera_model == m[1].group[1]
           datetime_original == strptime_ctime(m[1].group[2])[1]
           thumbnail == m[1].group[3]
           gpsdata == unpack(gpsformat, m[1].group[4])[1]
       IN  result' = Some(Metadata(camera_model, datetime_original, thumbnail,
                                   GpsInfoOrNone(gpsdata)))
    /\ pc' = "done"
    /\ UNCHANGED <<fixture, file, f, pos, junk_chunk, m, exc, got>>

\* Lines 70-169: a caller reads a GPS property of the returned Metadata
ReadProperty ==
    /\ pc = "done"
    /\ result # None
    /\ \E name \in GpsProperties :
         got' = [name |-> name, ret |-> Property(result[1], name)]
    /\ UNCHANGED <<fixture, file, f, pos, pc, junk_chunk, m, exc, result>>

get_avi_metadata ==
    \/ get_junk_chunk
    \/ NoJunk
    \/ SearchNone
    \/ SearchMatch
    \/ StampError
    \/ ReturnMetadata

Next == get_avi_metadata \/ ReadProperty

Spec == Init /\ [][Next]_vars

\* A call of _get_junk_chunk alone; the interpreter runs it on until it
\* returns or raises
ScanSpec == Init /\ [][get_junk_chunk]_vars /\ WF_vars(get_junk_chunk)


(***************************************************************************)
(* Properties                                                              *)
(***************************************************************************)
Block == junk_chunk[1]
Returned == pc = "done" /\ result # None
Blank(s) == \A k \in 1..Len(s) : s[k] \in {32, 0}

\* t is field without its trailing spaces and NUL bytes, and nothing else removed
TrimmedOf(t, field) ==
    /\ Len(t) <= Len(field)
    /\ t = SubSeq(field, 1, Len(t))
    /\ \A k \in (Len(t) + 1)..Len(field) : field[k] \in {32, 0}
    /\ Len(t) > 0 => t[Len(t)] \notin {32, 0}

\* A place in the block where FF D9 "GPS_" and a whole record stand
RecordAt(p, e) == IsAt(p, e, EOI \o GPSMARK) /\ e + 5 + 130 <= Len(p)

\* The file holds 12 bytes or more and they are not RIFF....AVI
BadMagic ==
    /\ Len(file) >= 12
    /\ ~(SubSeq(file, 1, 4) = RIFF /\ SubSeq(file, 9, 12) = AVI)

\* C1 as stated: a file whose 12-byte header fails the magic check ends in a
\* failure, never in the None that stands for "no metadata".
C1_BadMagicFails == (BadMagic /\ pc = "done") => exc # ""

\* C1 amended: a file whose 12-byte header fails the magic check makes
\* _get_junk_chunk return None after reading those 12 bytes, and
\* get_avi_metadata return None without raising: the "no metadata" outcome.
C1_BadMagicReturnsNone ==
    (BadMagic /\ pc \notin {"call", "header"}) =>
        /\ pc \in {"returned", "done"}
        /\ exc = ""
        /\ junk_chunk = None
        /\ m = None
        /\ result = None
        /\ pos = 12

C1_Witness ==
    /\ BadMagic
    /\ Len(file) > 12
    /\ SubSeq(file, 1, 4) = RIFF
    /\ pc = "done"
    /\ exc = ""
    /\ result = None

\* The GPS map a record's fields stand for
InjectedGps(r) ==
    IF Blank(r.latref) THEN None
    ELSE Some([tag \in GpsTags |->
           CASE tag = GPS_VERSION_ID    -> r.version
             [] tag = GPS_LATITUDE_REF  -> CHOOSE t \in {SubSeq(r.latref, 1, n) : n \in 0..2} :
                                             TrimmedOf(t, r.latref)
             [] tag = GPS_LATITUDE      -> r.lat
             [] tag = GPS_LONGITUDE_REF -> CHOOSE t \in {SubSeq(r.lonref, 1, n) : n \in 0..2} :
                                             TrimmedOf(t, r.lonref)
             [] tag = GPS_LONGITUDE     -> r.lon
             [] tag = GPS_ALTITUDE_REF  -> r.altref
             [] tag = GPS_ALTITUDE      -> r.alt
             [] tag = GPS_TIME_STAMP    -> r.time
             [] tag = GPS_SATELLITES    -> CHOOSE t \in {SubSeq(r.sats, 1, n) : n \in 0..3} :
                                             TrimmedOf(t, r.sats)
             [] tag = GPS_STATUS        -> CHOOSE t \in {SubSeq(r.status, 1, n) : n \in 0..2} :
                                             TrimmedOf(t, r.status)
             [] tag = GPS_MEASURE_MODE  -> CHOOSE t \in {SubSeq(r.mode, 1, n) : n \in 0..2} :
                                             TrimmedOf(t, r.mode)
             [] tag = GPS_MAP_DATUM     -> CHOOSE t \in {SubSeq(r.datum, 1, n) : n \in 0..7} :
                                             TrimmedOf(t, r.datum)
             [] OTHER                   -> CHOOSE t \in {SubSeq(r.date, 1, n) : n \in 0..11} :
                                             TrimmedOf(t, r.date)])

\* A whole movie whose timestamp is a well-formed clock value
Injected == fixture.kind = "avi" /\ fixture.cut = 0 /\ StampValue(fixture.stamp) # None

RoundTrips ==
    /\ exc = ""
    /\ result # None
    /\ result[1].camera_model = CAMERA
    /\ result[1].datetime_original = StampValue(fixture.stamp)[1]
    /\ result[1].thumbnail = fixture.thumb
    /\ result[1].gpsinfo = InjectedGps(fixture.rec)

\* No text of the timestamp's form before the timestamp, no FF D8 between the
\* timestamp and the thumbnail, "GPS_" right after the thumbnail, and no
\* FF D9 "GPS_" with 130 bytes behind it after the thumbnail
Undisturbed(fx) ==
    LET p  == PayloadOf(fx)
        t0 == Len(CAMERA) + Len(fx.f1) + 1
        j0 == t0 + 24 + Len(fx.f2)
        e0 == j0 + Len(fx.thumb) - 2
    IN  /\ fx.f3 = << >>
        /\ \A t \in (Len(CAMERA) + 1)..(t0 - 1) : ~StampAt(p, t)
        /\ \A j \in (t0 + 24)..(j0 - 1) : ~IsAt(p, j, SOI)
        /\ \A e \in (e0 + 1)..Len(p) : ~RecordAt(p, e)

\* C2 as stated: the four injected values come back whatever bytes stand
\* between the fragments, also between the thumbnail and "GPS_".
C2_RoundTripAnyFiller == (Injected /\ pc = "done") => RoundTrips

\* C2 amended: the four injected values come back when "GPS_" follows the
\* thumbnail's closing FF D9 at once and the other fillers and the trailing
\* bytes hold no second marker (see Undisturbed).
C2_RoundTrip == (Injected /\ Undisturbed(fixture) /\ pc = "done") => RoundTrips

C2_Witness ==
    /\ Injected
    /\ Undisturbed(fixture)
    /\ fixture.f1 # << >>
    /\ fixture.f2 # << >>
    /\ fixture.tail # << >>
    /\ Returned
    /\ result[1].gpsinfo # None
    /\ result[1].thumbnail = fixture.thumb

\* C3 as stated: the thumbnail ends at the first FF D9 after its FF D8.
C3_ThumbEndsAtFirstEOI ==
    Returned =>
        LET th == result[1].thumbnail
        IN  /\ IsAt(th, 1, SOI)
            /\ IsAt(th, Len(th) - 1, EOI)
            /\ \A k \in 3..(Len(th) - 2) : ~IsAt(th, k, EOI)

\* C3 amended: the thumbnail starts at the first FF D8 after the matched
\* timestamp and ends at the last FF D9 of the block that "GPS_" and 130
\* more bytes follow; every FF D9 before that one is part of the thumbnail.
C3_ThumbEndsAtLastEOIBeforeRecord ==
    Returned =>
        LET th == result[1].thumbnail
            at == m[1].at
        IN  /\ th = SubSeq(Block, at[3], at[4] + 1)
            /\ SubSeq(Block, at[2], at[2] + 23) = m[1].group[2]
            /\ at[3] >= at[2] + 24
            /\ IsAt(Block, at[3], SOI)
            /\ \A j \in (at[2] + 24)..(at[3] - 1) : ~IsAt(Block, j, SOI)
            /\ RecordAt(Block, at[4])
            /\ \A e \in (at[4] + 1)..Len(Block) : ~RecordAt(Block, e)

C3_Witness ==
    /\ Returned
    /\ \E k \in 3..(Len(result[1].thumbnail) - 2) : IsAt(result[1].thumbnail, k, EOI)
    /\ \E e \in 1..(m[1].at[4] - 1) : RecordAt(Block, e) /\ e >= m[1].at[3] + 2

\* C4: the chunk scan ends on every file: a pass of the loop that stays in
\* the loop moves the read position forward, and the scan reaches one of its
\* outcomes (a block or None returned, or an exception).
C4_ScanTerminates ==
    /\ [][(pc = "scan" /\ pc' = "scan") => pos' > pos]_vars
    /\ <>(pc \notin {"call", "header", "scan"})

C4_Witness ==
    /\ pc = "done"
    /\ exc = "struct.error"
    /\ pos > Len(file)
    /\ fixture.kind = "scan"
    /\ Len(fixture.chunks) = 2
    /\ fixture.chunks[1].tag = LIST
    /\ fixture.chunks[1].size < 4

\* C5: a short read at any step of the scan fails at that step: a JUNK chunk
\* that declares more bytes than the file holds raises instead of returning a
\* shorter block, and a LIST whose 4-byte subtype is cut short raises there.
C5_ShortReadFails ==
    [][(pc = "scan" /\ ChunkHeader # None) =>
         /\ (ChunkHeader[1][1] = JUNK /\ Len(file) - (pos + 8) < ChunkHeader[1][2])
               => (exc' # "" /\ junk_chunk' = None)
         /\ (ChunkHeader[1][1] = LIST /\ Len(file) - (pos + 8) < 4)
               => (exc' # "" /\ pc' = "done")]_vars

\* C6: a record whose latitude reference is blank gives gpsinfo None and None
\* from every GPS property, whatever its other fields hold; any other record
\* gives all 13 tags; the other three fields are returned either way.
C6_GpsAtomic ==
    Returned =>
        LET md == result[1]
            R  == m[1].group[4]
        IN  /\ md.camera_model = m[1].group[1]
            /\ md.thumbnail = m[1].group[3]
            /\ Some(md.datetime_original) = strptime_ctime(m[1].group[2])
            /\ IF Blank(SubSeq(R, 5, 6))
               THEN /\ md.gpsinfo = None
                    /\ \A name \in GpsProperties : Property(md, name).kind = "None"
                    /\ got.ret.kind = "None"
               ELSE /\ md.gpsinfo # None
                    /\ DOMAIN md.gpsinfo[1] = GpsTags
                    /\ Cardinality(DOMAIN md.gpsinfo[1]) = 13

C6_Witness ==
    /\ Returned
    /\ result[1].gpsinfo = None
    /\ m[1].group[4][31] = 69
    /\ m[1].group[4][113] = 87
    /\ got.name = "gps_datetime"
    /\ got.ret.kind = "None"

\* Whole chunks behind a RIFF/AVI header, each LIST holding its subtype
WellMade(fx) ==
    /\ fx.kind = "scan"
    /\ fx.header = GoodHeader
    /\ fx.cut = 0
    /\ \A k \in 1..Len(fx.chunks) :
         /\ fx.chunks[k].size = Len(fx.chunks[k].body)
         /\ fx.chunks[k].tag = LIST => fx.chunks[k].size >= 4

Stops(c) == c.tag = JUNK \/ (c.tag = LIST /\ SubSeq(c.body, 1, 4) = movi)

\* The first top-level chunk that is JUNK or LIST/movi, 0 when there is none
FirstStop(cs) ==
    IF \E k \in 1..Len(cs) : Stops(cs[k])
    THEN CHOOSE k \in 1..Len(cs) : Stops(cs[k]) /\ \A i \in 1..(k - 1) : ~Stops(cs[i])
    ELSE 0

RECURSIVE OffsetOf(_, _)
OffsetOf(cs, k) == IF k = 0 THEN 12 ELSE OffsetOf(cs, k - 1) + 8 + cs[k].size

\* C7: over whole top-level chunks the scan returns the bytes of the first
\* JUNK chunk exactly when no LIST/movi stands before it and None when a
\* LIST/movi comes first; every chunk passed over moves the position by
\* 8 + size, so the loop only ever stands at the start of a top-level chunk.
C7_FirstJunkBeforeMovi ==
    WellMade(fixture) =>
        LET cs == fixture.chunks
            k  == FirstStop(cs)
        IN  /\ pc = "scan" =>
                 \E i \in 0..Len(cs) :
                     /\ pos = OffsetOf(cs, i)
                     /\ \A j \in 1..i : ~Stops(cs[j])
            /\ pc \in {"returned", "matched", "done"} =>
                 IF k = 0 THEN junk_chunk = None /\ exc = "struct.error"
                 ELSE IF cs[k].tag = JUNK THEN junk_chunk = Some(cs[k].body)
                 ELSE junk_chunk = None /\ exc = "" /\ result = None

C7_Witness ==
    /\ WellMade(fixture)
    /\ Len(fixture.chunks) = 2
    /\ fixture.chunks[1].tag = idx1
    /\ fixture.chunks[1].size = 3
    /\ fixture.chunks[2].tag = JUNK
    /\ fixture.chunks[2].size = 2
    /\ pc = "done"
    /\ junk_chunk = Some(fixture.chunks[2].body)

\* Little-endian unsigned 32-bit integers at offsets counted from 0
U32(R, o) == R[o + 1] + 256 * R[o + 2] + 65536 * R[o + 3] + 16777216 * R[o + 4]
Pair(R, o) == <<U32(R, o), U32(R, o + 4)>>
Triple(R, o) == <<Pair(R, o), Pair(R, o + 8), Pair(R, o + 16)>>
Bytes(R, a, b) == SubSeq(R, a + 1, b + 1)

\* C8: the record is the 130 bytes behind "GPS_", and each tag is read from
\* its own byte range: version 0-3, latitude reference 4-5, latitude 6-29,
\* longitude reference 30-31, longitude 32-55, altitude reference 56,
\* altitude 57-64, (65-80 unused), time 81-104, satellites 105-107, status
\* 108-109, measure mode 110-111, map datum 112-118, date 119-129; rationals
\* are kept as (numerator, denominator), texts lose trailing spaces and NULs.
C8_RecordLayout ==
    (Returned /\ result[1].gpsinfo # None) =>
        LET e == m[1].at[4]
            R == SubSeq(Block, e + 6, e + 135)
            g == result[1].gpsinfo[1]
        IN  /\ IsAt(Block, e + 2, GPSMARK)
            /\ calcsize(gpsformat) = 130
            /\ m[1].group[4] = R
            /\ g[GPS_VERSION_ID] = Bytes(R, 0, 3)
            /\ TrimmedOf(g[GPS_LATITUDE_REF], Bytes(R, 4, 5))
            /\ g[GPS_LATITUDE] = Triple(R, 6)
            /\ TrimmedOf(g[GPS_LONGITUDE_REF], Bytes(R, 30, 31))
            /\ g[GPS_LONGITUDE] = Triple(R, 32)
            /\ g[GPS_ALTITUDE_REF] = R[57]
            /\ g[GPS_ALTITUDE] = Pair(R, 57)
            /\ g[GPS_TIME_STAMP] = Triple(R, 81)
            /\ TrimmedOf(g[GPS_SATELLITES], Bytes(R, 105, 107))
            /\ TrimmedOf(g[GPS_STATUS], Bytes(R, 108, 109))
            /\ TrimmedOf(g[GPS_MEASURE_MODE], Bytes(R, 110, 111))
            /\ TrimmedOf(g[GPS_MAP_DATUM], Bytes(R, 112, 118))
            /\ TrimmedOf(g[GPS_DATE_STAMP], Bytes(R, 119, 129))

C8_Witness ==
    /\ Returned
    /\ result[1].gpsinfo # None
    /\ result[1].gpsinfo[1][GPS_ALTITUDE] = <<16909060, 100>>
    /\ result[1].gpsinfo[1][GPS_MAP_DATUM] = <<87, 71, 83, 45, 56, 52>>
    /\ result[1].gpsinfo[1][GPS_SATELLITES] = <<48, 53>>

\* degrees + minutes/60 + seconds/3600 over one denominator
Magnitude(r) ==
    Frac(r[1][1] * r[2][2] * r[3][2] * 3600 + r[2][1] * r[1][2] * r[3][2] * 60
           + r[3][1] * r[1][2] * r[2][2],
         r[1][2] * r[2][2] * r[3][2] * 3600)
Divides(r) == \A k \in 1..3 : r[k][2] # 0

WithTag(md, tag, v) == [md EXCEPT !.gpsinfo = Some([md.gpsinfo[1] EXCEPT ![tag] = v])]

\* C9: the reference only sets the sign: latitude with "S" is the negation of
\* latitude with "N", longitude with "W" that of longitude with "E", the
\* magnitude being degrees + minutes/60 + seconds/3600; altitude with
\* reference 1 is the negated quotient, with reference 0 the quotient.  (A
\* zero denominator raises ZeroDivisionError under either reference.)
C9_ReferenceSign ==
    (Returned /\ result[1].gpsinfo # None) =>
        LET md == result[1]
            g  == md.gpsinfo[1]
            latN == gps_latitude(WithTag(md, GPS_LATITUDE_REF, <<78>>))
            latS == gps_latitude(WithTag(md, GPS_LATITUDE_REF, <<83>>))
            lonE == gps_longitude(WithTag(md, GPS_LONGITUDE_REF, <<69>>))
            lonW == gps_longitude(WithTag(md, GPS_LONGITUDE_REF, <<87>>))
            alt0 == gps_altitude(WithTag(md, GPS_ALTITUDE_REF, 0))
            alt1 == gps_altitude(WithTag(md, GPS_ALTITUDE_REF, 1))
        IN  /\ IF Divides(g[GPS_LATITUDE])
               THEN /\ latN = RVal(Magnitude(g[GPS_LATITUDE]))
                    /\ latS = RVal(FNeg(Magnitude(g[GPS_LATITUDE])))
               ELSE latN.kind = "ZeroDivisionError" /\ latS.kind = "ZeroDivisionError"
            /\ IF Divides(g[GPS_LONGITUDE])
               THEN /\ lonE = RVal(Magnitude(g[GPS_LONGITUDE]))
                    /\ lonW = RVal(FNeg(Magnitude(g[GPS_LONGITUDE])))
               ELSE lonE.kind = "ZeroDivisionError" /\ lonW.kind = "ZeroDivisionError"
            /\ IF g[GPS_ALTITUDE][2] # 0
               THEN /\ alt0 = RVal(Frac(g[GPS_ALTITUDE][1], g[GPS_ALTITUDE][2]))
                    /\ alt1 = RVal(FNeg(Frac(g[GPS_ALTITUDE][1], g[GPS_ALTITUDE][2])))
               ELSE alt0.kind = "ZeroDivisionError" /\ alt1.kind = "ZeroDivisionError"
            /\ got.name = "gps_latitude" =>
                 got.ret = IF g[GPS_LATITUDE_REF] = <<83>> THEN latS ELSE latN
            /\ got.name = "gps_longitude" =>
                 got.ret = IF g[GPS_LONGITUDE_REF] = <<87>> THEN lonW ELSE lonE
            /\ got.name = "gps_altitude" =>
                 got.ret = IF g[GPS_ALTITUDE_REF] = 1 THEN alt1 ELSE alt0

C9_Witness ==
    /\ Returned
    /\ result[1].gpsinfo # None
    /\ result[1].gpsinfo[1][GPS_LATITUDE_REF] = <<83>>
    /\ got.name = "gps_latitude"
    /\ got.ret.kind = "value"
    /\ got.ret.v[1] < 0

\* C10: the file is open only while _get_junk_chunk reads it: it is closed
\* when the call has returned a block or None or has raised, and before the
\* block is searched and the record decoded.
C10_FileReleased ==
    /\ pc = "call" => f = "unopened"
    /\ pc \in {"header", "scan"} => f = "open"
    /\ pc \in {"returned", "matched", "done"} => f = "closed"
    /\ (junk_chunk # None \/ m # None \/ result # None \/ exc # "") => f = "closed"

C10_Witness ==
    /\ pc = "done"
    /\ exc = "struct.error"
    /\ Len(file) > 12
    /\ f = "closed"

=============================================================================
